---- MODULE Spec2Model ----
(***************************************************************************)
(* Model of mininab.py, a minimal envelope-budgeting ledger.               *)
(*                                                                         *)
(* Representation choices:                                                 *)
(*  - a Python str is a tuple of one-character strings, so that split(':') *)
(*    and strip() are computed and not assumed;                            *)
(*  - a month text is a tuple of lexical tokens (a year, a month name, a   *)
(*    month number, a separator, a blank);                                 *)
(*  - Python's None is the tuple <<"None">>, which no str can equal since  *)
(*    "None" is not a one-character string;                                *)
(*  - a dict is a function; its DOMAIN is its key set;                     *)
(*  - a money amount is an integer number of thousandths, so that amounts  *)
(*    with three fractional digits exist and round(x, 2) is not the        *)
(*    identity.  Float arithmetic is taken as exact.                       *)
(*                                                                         *)
(* state is the ledger, last the command run last with the ledger it was   *)
(* given, nops the number of commands run.  carried is a history variable: *)
(* for every pair <<month, category>> that was the destination of a        *)
(* rollover, the sum of the values the variable carry of cmd_roll had when *)
(* it was added to that entry.                                             *)
(***************************************************************************)
EXTENDS Integers, Sequences, FiniteSets, TLC

VARIABLES state, last, nops, carried

vars == <<state, last, nops, carried>>

(* ------------------------------ bounds -------------------------------- *)

\* number of commands run in one behaviour
MaxOps == 4

\* number of commands run in one behaviour of the end-to-end scenario
MaxE2E == 6

(* ------------------------------ inputs -------------------------------- *)

None == <<"None">>

Chk == <<"C", "h", "k">>
Visa == <<"V", "i", "s", "a">>
AccNames == {Chk, Visa}

AccTypes == {"bank", "credit", "cash"}

pA == <<"A">>
pAB == <<"A", ":", "B">>
pABC == <<"A", ":", "B", ":", "C">>
pABsp == <<" ", "A", " ", ":", " ", "B">>
pX == <<"X">>
\* a path with an empty segment
pAeB == <<"A", ":", ":", "B">>

\* the specs given to cmd_cat
CatSpecs == {pAB, pABC, pABsp, pAeB}

\* the category names given to cmd_bud and cmd_spend
CatNames == {pA, pAB, pX}

Jan == <<"2024", "-", "01">>
Feb == <<"2024", "-", "02">>

\* the month texts given to the commands; the last one does not parse
MonthTexts == {<<"Jan", " ", "2024">>, <<" ", "2024", "/", "2">>, <<"2024", "-", "13">>}

\* amounts in thousandths: -15.00, 40.00 and 1.004 for cmd_tbb and cmd_bud,
\* 15.00 for cmd_spend, 40.00 for cmd_xfer
Amounts == {-15000, 40000, 1004}
SpendAmounts == {15000}
XferAmounts == {40000}

(* ----------------------------- dict helpers --------------------------- *)

\* d[k] = v
Put(d, k, v) == [x \in (DOMAIN d) \cup {k} |-> IF x = k THEN v ELSE d[x]]

\* d.setdefault(k, v), the dict afterwards
SetDefault(d, k, v) == IF k \in DOMAIN d THEN d ELSE Put(d, k, v)

\* d.get(k, v)
Get(d, k, v) == IF k \in DOMAIN d THEN d[k] ELSE v

EmptyDict == [x \in {} |-> 0]

(* --------------------------- load_state ------------------------------- *)

load_state == [accounts |-> EmptyDict,
               categories |-> EmptyDict,
               month_summary |-> EmptyDict,
               category_month |-> EmptyDict,
               transactions |-> <<>>]

(* ----------------------------- str methods ---------------------------- *)

IsSpace(ch) == ch = " "

RECURSIVE LStrip(_)
LStrip(s) == IF s # <<>> /\ IsSpace(Head(s)) THEN LStrip(Tail(s)) ELSE s

RECURSIVE RStrip(_)
RStrip(s) == IF s # <<>> /\ IsSpace(s[Len(s)]) THEN RStrip(SubSeq(s, 1, Len(s) - 1)) ELSE s

\* s.strip()
Strip(s) == RStrip(LStrip(s))

\* s.split(sep): the parts of s between the occurrences of sep
RECURSIVE SplitFrom(_, _, _)
SplitFrom(s, sep, cur) ==
    IF s = <<>> THEN <<cur>>
    ELSE IF Head(s) = sep THEN <<cur>> \o SplitFrom(Tail(s), sep, <<>>)
    ELSE SplitFrom(Tail(s), sep, Append(cur, Head(s)))

Split(s, sep) == SplitFrom(s, sep, <<>>)

\* the code point of a character; for the tokens of a month key, which are
\* digit strings of equal length at equal positions, the number they spell
Rank == (" " :> 32) @@ ("-" :> 45) @@ (":" :> 58) @@ ("A" :> 65) @@ ("B" :> 66) @@
        ("C" :> 67) @@ ("F" :> 70) @@ ("X" :> 88) @@ ("d" :> 100) @@ ("o" :> 111) @@
        ("01" :> 1) @@ ("02" :> 2) @@ ("03" :> 3) @@ ("2024" :> 2024)

\* a < b for two str
RECURSIVE StrLess(_, _)
StrLess(a, b) ==
    IF a = <<>> THEN b # <<>>
    ELSE IF b = <<>> THEN FALSE
    ELSE IF Head(a) = Head(b) THEN StrLess(Tail(a), Tail(b))
    ELSE Rank[Head(a)] < Rank[Head(b)]

\* list.sort() and sorted() on distinct str: the members of S in ascending order
RECURSIVE Sorted(_)
Sorted(S) ==
    IF S = {} THEN <<>>
    ELSE LET x == CHOOSE y \in S : \A z \in S \ {y} : StrLess(y, z)
         IN  <<x>> \o Sorted(S \ {x})

(* ----------------------------- parse_month ---------------------------- *)

Err == <<"ValueError">>

Abbr == [Jan |-> 1, Feb |-> 2, Mar |-> 3]
Full == [January |-> 1, February |-> 2, March |-> 3]
Years == {"2024"}
MonthDigits == [x \in {"01", "1"} |-> 1] @@ [x \in {"02", "2"} |-> 2] @@ [x \in {"03", "3"} |-> 3]
Pad2 == <<"01", "02", "03">>

\* strptime(text, fmt) for the four formats, then strftime("%Y-%m")
Strptime(text, fmt) ==
    IF Len(text) # 3 THEN Err
    ELSE CASE fmt = "%b %Y" ->
                IF text[1] \in DOMAIN Abbr /\ text[2] = " " /\ text[3] \in Years
                THEN <<text[3], "-", Pad2[Abbr[text[1]]]>> ELSE Err
           [] fmt = "%B %Y" ->
                IF text[1] \in DOMAIN Full /\ text[2] = " " /\ text[3] \in Years
                THEN <<text[3], "-", Pad2[Full[text[1]]]>> ELSE Err
           [] fmt = "%Y-%m" ->
                IF text[1] \in Years /\ text[2] = "-" /\ text[3] \in DOMAIN MonthDigits
                THEN <<text[1], "-", Pad2[MonthDigits[text[3]]]>> ELSE Err
           [] fmt = "%Y/%m" ->
                IF text[1] \in Years /\ text[2] = "/" /\ text[3] \in DOMAIN MonthDigits
                THEN <<text[1], "-", Pad2[MonthDigits[text[3]]]>> ELSE Err

Formats == <<"%b %Y", "%B %Y", "%Y-%m", "%Y/%m">>

RECURSIVE TryFormats(_, _)
TryFormats(text, i) ==
    IF i > Len(Formats) THEN Err
    ELSE IF Strptime(text, Formats[i]) # Err THEN Strptime(text, Formats[i])
    ELSE TryFormats(text, i + 1)

parse_month(text) == TryFormats(Strip(text), 1)

(* --------------------------- sorted_categories ------------------------ *)

\* visit with every level printed at the indent of its parent
RECURSIVE visit_SameIndent(_, _, _)
visit_SameIndent(tree, names, indent) ==
    IF names = <<>> THEN <<>>
    ELSE <<indent \o Head(names)>>
         \o visit_SameIndent(tree, Get(tree, Head(names), <<>>), indent)
         \o visit_SameIndent(tree, Tail(names), indent)

\* visit(parent, indent), given the list tree.get(parent, []) it loops over:
\* what it appends to result
RECURSIVE visit(_, _, _)
visit(tree, names, indent) ==
    IF names = <<>> THEN <<>>
    ELSE <<indent \o Head(names)>>
         \o visit(tree, Get(tree, Head(names), <<>>), indent \o <<" ", " ">>)
         \o visit(tree, Tail(names), indent)

\* tree has a key for None, for every parent and for every name; the list of
\* a key holds the names with that parent, sorted
sorted_categories(s) ==
    LET cats == s.categories
        keys == {None} \cup {cats[n].parent : n \in DOMAIN cats} \cup DOMAIN cats
        tree == [k \in keys |-> Sorted({n \in DOMAIN cats : cats[n].parent = k})]
    IN  visit(tree, Get(tree, None, <<>>), <<>>)

(* ----------------------------- results -------------------------------- *)

\* a command that ran to its end
Done(s, out) == [state |-> s, status |-> "ok", out |-> out, key |-> None]
\* a command that printed a message and returned early
Rejected(s, out) == [state |-> s, status |-> "rejected", out |-> out, key |-> None]
\* a command that raised
Raised(s) == [state |-> s, status |-> "raised", out |-> <<>>, key |-> None]

(* ----------------------------- get_cat_entry -------------------------- *)

ZeroEntry == [budgeted |-> 0, activity |-> 0, available |-> 0]

\* get_cat_entry assigning a fresh entry where it should only default one
get_cat_entry_Reset(s, month, cat) ==
    LET cm == SetDefault(s.category_month, month, EmptyDict)
    IN  [s EXCEPT !.category_month = Put(cm, month, Put(cm[month], cat, ZeroEntry))]

\* the state after get_cat_entry(state, month, cat)
get_cat_entry(s, month, cat) ==
    LET cm == SetDefault(s.category_month, month, EmptyDict)
    IN  [s EXCEPT !.category_month = Put(cm, month, SetDefault(cm[month], cat, ZeroEntry))]

(* ----------------------------- messages ------------------------------- *)

\* one printed line: what it says and the value it is about
Msg(m, arg) == [msg |-> m, arg |-> arg]

(* ----------------------------- cmd_acc -------------------------------- *)

\* cmd_acc without the check for an existing name
cmd_acc_Overwrite(s, name, typ) ==
    IF typ \notin {"bank", "credit"} THEN Rejected(s, <<Msg("bad type", None)>>)
    ELSE Done([s EXCEPT !.accounts = Put(s.accounts, name, [type |-> typ])],
              <<Msg("added", name)>>)

cmd_acc(s, name, typ) ==
    IF typ \notin {"bank", "credit"} THEN Rejected(s, <<Msg("bad type", None)>>)
    ELSE IF name \in DOMAIN s.accounts THEN Rejected(s, <<Msg("already exists", name)>>)
    ELSE Done([s EXCEPT !.accounts = Put(s.accounts, name, [type |-> typ])],
              <<Msg("added", name)>>)

(* ----------------------------- cmd_cat -------------------------------- *)

\* CatLoop reporting every prefix that exists already, not the leaf alone
RECURSIVE CatLoop_ReportAll(_, _, _, _, _)
CatLoop_ReportAll(r, parts, i, full_path, parent_path) ==
    IF i > Len(parts) THEN r
    ELSE LET fp == (IF i > 1 THEN Append(full_path, ":") ELSE full_path) \o parts[i]
             r2 == IF fp \notin DOMAIN r.cats
                   THEN [cats |-> Put(r.cats, fp, [parent |-> parent_path]),
                         out |-> Append(r.out, Msg("added", fp))]
                   ELSE [cats |-> r.cats, out |-> Append(r.out, Msg("already exists", fp))]
         IN  CatLoop_ReportAll(r2, parts, i + 1, fp, fp)

\* CatLoop creating the leaf alone, without its missing ancestors
RECURSIVE CatLoop_LeafOnly(_, _, _, _, _)
CatLoop_LeafOnly(r, parts, i, full_path, parent_path) ==
    IF i > Len(parts) THEN r
    ELSE LET fp == (IF i > 1 THEN Append(full_path, ":") ELSE full_path) \o parts[i]
             r2 == IF fp \in DOMAIN r.cats
                   THEN IF i = Len(parts)
                        THEN [cats |-> r.cats,
                              out |-> Append(r.out, Msg("already exists", fp))]
                        ELSE r
                   ELSE IF i = Len(parts)
                   THEN [cats |-> Put(r.cats, fp, [parent |-> parent_path]),
                         out |-> Append(r.out, Msg("added", fp))]
                   ELSE r
         IN  CatLoop_LeafOnly(r2, parts, i + 1, fp, fp)

\* the loop of cmd_cat from index i on: r.cats is the category dict, r.out the
\* lines printed so far
RECURSIVE CatLoop(_, _, _, _, _)
CatLoop(r, parts, i, full_path, parent_path) ==
    IF i > Len(parts) THEN r
    ELSE LET fp == (IF i > 1 THEN Append(full_path, ":") ELSE full_path) \o parts[i]
             r2 == IF fp \notin DOMAIN r.cats
                   THEN [cats |-> Put(r.cats, fp, [parent |-> parent_path]),
                         out |-> Append(r.out, Msg("added", fp))]
                   ELSE IF i = Len(parts)
                   THEN [cats |-> r.cats, out |-> Append(r.out, Msg("already exists", fp))]
                   ELSE r
         IN  CatLoop(r2, parts, i + 1, fp, fp)

cmd_cat(s, spec) ==
    LET split == Split(spec, ":")
        parts == [i \in 1..Len(split) |-> Strip(split[i])]
        r == CatLoop([cats |-> s.categories, out |-> <<>>], parts, 1, <<>>, None)
    IN  Done([s EXCEPT !.categories = r.cats], r.out)

(* ----------------------------- cmd_tbb -------------------------------- *)

\* round(amt, 2): the multiples of 10 thousandths nearest to amt; a tie has
\* two, and the float's binary expansion decides which one Python returns
Round2(amt) ==
    LET lo == amt - (amt % 10)
    IN  IF amt % 10 < 5 THEN {lo}
        ELSE IF amt % 10 > 5 THEN {lo + 10}
        ELSE {lo, lo + 10}

\* cmd_tbb adding the amount to the month's ready_to_assign
cmd_tbb_Accumulate(s, mon, amt, rounded) ==
    LET m == parse_month(mon)
    IN  IF m = Err THEN Raised(s)
        ELSE LET ms == SetDefault(s.month_summary, m, EmptyDict)
             IN  Done([s EXCEPT !.month_summary =
                          Put(ms, m, Put(ms[m], "ready_to_assign",
                                         Get(ms[m], "ready_to_assign", 0) + rounded))],
                      <<Msg("TBB", m)>>)

cmd_tbb(s, mon, amt, rounded) ==
    LET m == parse_month(mon)
    IN  IF m = Err THEN Raised(s)
        ELSE LET ms == SetDefault(s.month_summary, m, EmptyDict)
             IN  Done([s EXCEPT !.month_summary =
                          Put(ms, m, Put(ms[m], "ready_to_assign", rounded))],
                      <<Msg("TBB", m)>>)

(* ----------------------------- cmd_bud -------------------------------- *)

\* cmd_bud not appending its transaction
cmd_bud_NoLog(s, mon, cat, amt) ==
    LET m == parse_month(mon)
    IN  IF m = Err THEN Raised(s)
        ELSE IF cat \notin DOMAIN s.categories THEN Rejected(s, <<Msg("category not found", cat)>>)
        ELSE LET s1 == get_cat_entry(s, m, cat)
                 e == s1.category_month[m][cat]
                 e2 == [e EXCEPT !.budgeted = @ + amt, !.available = @ + amt]
             IN  Done([s1 EXCEPT !.category_month[m][cat] = e2], <<Msg("Budgeted", cat)>>)

\* cmd_bud fetching the entry before it checks the category
cmd_bud_EntryFirst(s, mon, cat, amt) ==
    LET m == parse_month(mon)
    IN  IF m = Err THEN Raised(s)
        ELSE LET s1 == get_cat_entry(s, m, cat)
             IN  IF cat \notin DOMAIN s.categories
                 THEN Rejected(s1, <<Msg("category not found", cat)>>)
                 ELSE LET e == s1.category_month[m][cat]
                          e2 == [e EXCEPT !.budgeted = @ + amt, !.available = @ + amt]
                          s2 == [s1 EXCEPT !.category_month[m][cat] = e2]
                          tx == [month |-> m, account |-> None, category |-> cat,
                                 amount |-> amt]
                      IN  Done([s2 EXCEPT !.transactions = Append(@, tx)],
                               <<Msg("Budgeted", cat)>>)

cmd_bud(s, mon, cat, amt) ==
    LET m == parse_month(mon)
    IN  IF m = Err THEN Raised(s)
        ELSE IF cat \notin DOMAIN s.categories THEN Rejected(s, <<Msg("category not found", cat)>>)
        ELSE LET s1 == get_cat_entry(s, m, cat)
                 e == s1.category_month[m][cat]
                 e1 == [e EXCEPT !.budgeted = @ + amt]
                 e2 == [e1 EXCEPT !.available = @ + amt]
                 s2 == [s1 EXCEPT !.category_month[m][cat] = e2]
                 tx == [month |-> m, account |-> None, category |-> cat, amount |-> amt]
             IN  Done([s2 EXCEPT !.transactions = Append(@, tx)], <<Msg("Budgeted", cat)>>)

(* ----------------------------- cmd_spend ------------------------------ *)

\* cmd_spend putting its transaction at the head of the log
cmd_spend_Prepend(s, mon, acc, cat, amt) ==
    LET m == parse_month(mon)
    IN  IF m = Err THEN Raised(s)
        ELSE IF acc \notin DOMAIN s.accounts THEN Rejected(s, <<Msg("account not found", acc)>>)
        ELSE IF cat \notin DOMAIN s.categories THEN Rejected(s, <<Msg("category not found", cat)>>)
        ELSE LET s1 == get_cat_entry(s, m, cat)
                 e == s1.category_month[m][cat]
                 e2 == [e EXCEPT !.activity = @ - amt, !.available = @ - amt]
                 s2 == [s1 EXCEPT !.category_month[m][cat] = e2]
                 tx == [month |-> m, account |-> acc, category |-> cat, amount |-> -amt]
             IN  Done([s2 EXCEPT !.transactions = <<tx>> \o @], <<Msg("Spent", cat)>>)

\* cmd_spend adding the amount to activity instead of subtracting it
cmd_spend_SignSlip(s, mon, acc, cat, amt) ==
    LET m == parse_month(mon)
    IN  IF m = Err THEN Raised(s)
        ELSE IF acc \notin DOMAIN s.accounts THEN Rejected(s, <<Msg("account not found", acc)>>)
        ELSE IF cat \notin DOMAIN s.categories THEN Rejected(s, <<Msg("category not found", cat)>>)
        ELSE LET s1 == get_cat_entry(s, m, cat)
                 e == s1.category_month[m][cat]
                 e2 == [e EXCEPT !.activity = @ + amt, !.available = @ - amt]
                 s2 == [s1 EXCEPT !.category_month[m][cat] = e2]
                 tx == [month |-> m, account |-> acc, category |-> cat, amount |-> -amt]
             IN  Done([s2 EXCEPT !.transactions = Append(@, tx)], <<Msg("Spent", cat)>>)

\* cmd_spend that lowers activity and leaves available alone
cmd_spend_ActivityOnly(s, mon, acc, cat, amt) ==
    LET m == parse_month(mon)
    IN  IF m = Err THEN Raised(s)
        ELSE IF acc \notin DOMAIN s.accounts THEN Rejected(s, <<Msg("account not found", acc)>>)
        ELSE IF cat \notin DOMAIN s.categories THEN Rejected(s, <<Msg("category not found", cat)>>)
        ELSE LET s1 == get_cat_entry(s, m, cat)
                 e == s1.category_month[m][cat]
                 e1 == [e EXCEPT !.activity = @ - amt]
                 s2 == [s1 EXCEPT !.category_month[m][cat] = e1]
                 tx == [month |-> m, account |-> acc, category |-> cat, amount |-> -amt]
             IN  Done([s2 EXCEPT !.transactions = Append(@, tx)], <<Msg("Spent", cat)>>)

cmd_spend(s, mon, acc, cat, amt) ==
    LET m == parse_month(mon)
    IN  IF m = Err THEN Raised(s)
        ELSE IF acc \notin DOMAIN s.accounts THEN Rejected(s, <<Msg("account not found", acc)>>)
        ELSE IF cat \notin DOMAIN s.categories THEN Rejected(s, <<Msg("category not found", cat)>>)
        ELSE LET s1 == get_cat_entry(s, m, cat)
                 e == s1.category_month[m][cat]
                 e1 == [e EXCEPT !.activity = @ - amt]
                 e2 == [e1 EXCEPT !.available = @ - amt]
                 s2 == [s1 EXCEPT !.category_month[m][cat] = e2]
                 tx == [month |-> m, account |-> acc, category |-> cat, amount |-> -amt]
             IN  Done([s2 EXCEPT !.transactions = Append(@, tx)], <<Msg("Spent", cat)>>)

(* ----------------------------- cmd_xfer ------------------------------- *)

\* cmd_xfer opening the month in category_month, as cmd_roll does
cmd_xfer_OpenMonth(s, mon, src, dst, amt) ==
    LET m == parse_month(mon)
    IN  IF m = Err THEN Raised(s)
        ELSE IF src \notin DOMAIN s.accounts \/ dst \notin DOMAIN s.accounts
        THEN Rejected(s, <<Msg("accounts must exist", src)>>)
        ELSE LET tx1 == [month |-> m, account |-> src, category |-> None, amount |-> -amt]
                 tx2 == [month |-> m, account |-> dst, category |-> None, amount |-> amt]
             IN  Done([s EXCEPT !.transactions = Append(Append(@, tx1), tx2),
                                !.category_month = SetDefault(@, m, EmptyDict)],
                      <<Msg("Transferred", src)>>)

cmd_xfer(s, mon, src, dst, amt) ==
    LET m == parse_month(mon)
    IN  IF m = Err THEN Raised(s)
        ELSE IF src \notin DOMAIN s.accounts \/ dst \notin DOMAIN s.accounts
        THEN Rejected(s, <<Msg("accounts must exist", None)>>)
        ELSE LET tx1 == [month |-> m, account |-> src, category |-> None, amount |-> -amt]
                 tx2 == [month |-> m, account |-> dst, category |-> None, amount |-> amt]
             IN  Done([s EXCEPT !.transactions = Append(Append(@, tx1), tx2)],
                      <<Msg("Transferred", src)>>)

(* ----------------------------- cmd_roll ------------------------------- *)

Max(a, b) == IF a >= b THEN a ELSE b

\* RollLoop assigning the overspend where it should accumulate it
RECURSIVE RollLoop_OverspendLast(_, _, _, _)
RollLoop_OverspendLast(r, f, t, todo) ==
    IF todo = {} THEN r
    ELSE LET c == CHOOSE x \in todo : TRUE
             prev == Get(r.cm[f], c, [available |-> 0])
             av == prev.available
             carry == Max(av, 0)
             ov == IF av < 0 THEN -av ELSE r.overspend
             to_month == SetDefault(r.cm[t], c, ZeroEntry)
             dest == [to_month[c] EXCEPT !.available = @ + carry]
         IN  RollLoop_OverspendLast([cm |-> Put(r.cm, t, Put(to_month, c, dest)),
                                     overspend |-> ov], f, t, todo \ {c})

\* RollLoop reading the source entry with setdefault: the source month gets a
\* zero entry for a category that had none
RECURSIVE RollLoop_SourceDefault(_, _, _, _)
RollLoop_SourceDefault(r, f, t, todo) ==
    IF todo = {} THEN r
    ELSE LET c == CHOOSE x \in todo : TRUE
             cm1 == Put(r.cm, f, SetDefault(r.cm[f], c, ZeroEntry))
             av == cm1[f][c].available
             carry == Max(av, 0)
             ov == IF av < 0 THEN r.overspend + (-av) ELSE r.overspend
             to_month == SetDefault(cm1[t], c, ZeroEntry)
             dest == [to_month[c] EXCEPT !.available = @ + carry]
         IN  RollLoop_SourceDefault([cm |-> Put(cm1, t, Put(to_month, c, dest)),
                                     overspend |-> ov], f, t, todo \ {c})

\* RollLoop writing a fresh destination entry: budgeted and activity are lost
RECURSIVE RollLoop_FreshDest(_, _, _, _)
RollLoop_FreshDest(r, f, t, todo) ==
    IF todo = {} THEN r
    ELSE LET c == CHOOSE x \in todo : TRUE
             prev == Get(r.cm[f], c, [available |-> 0])
             av == prev.available
             carry == Max(av, 0)
             ov == IF av < 0 THEN r.overspend + (-av) ELSE r.overspend
             to_month == SetDefault(r.cm[t], c, ZeroEntry)
             dest == [ZeroEntry EXCEPT !.available = to_month[c].available + carry]
         IN  RollLoop_FreshDest([cm |-> Put(r.cm, t, Put(to_month, c, dest)),
                                 overspend |-> ov], f, t, todo \ {c})

\* RollLoop setting the destination available to the carry instead of adding it
RECURSIVE RollLoop_Assign(_, _, _, _)
RollLoop_Assign(r, f, t, todo) ==
    IF todo = {} THEN r
    ELSE LET c == CHOOSE x \in todo : TRUE
             prev == Get(r.cm[f], c, [available |-> 0])
             av == prev.available
             carry == Max(av, 0)
             ov == IF av < 0 THEN r.overspend + (-av) ELSE r.overspend
             to_month == SetDefault(r.cm[t], c, ZeroEntry)
             dest == [to_month[c] EXCEPT !.available = carry]
         IN  RollLoop_Assign([cm |-> Put(r.cm, t, Put(to_month, c, dest)), overspend |-> ov],
                             f, t, todo \ {c})

\* RollLoop with the carry not clamped at zero: a negative balance is carried
RECURSIVE RollLoop_NoClamp(_, _, _, _)
RollLoop_NoClamp(r, f, t, todo) ==
    IF todo = {} THEN r
    ELSE LET c == CHOOSE x \in todo : TRUE
             prev == Get(r.cm[f], c, [available |-> 0])
             av == prev.available
             carry == av
             ov == IF av < 0 THEN r.overspend + (-av) ELSE r.overspend
             to_month == SetDefault(r.cm[t], c, ZeroEntry)
             dest == [to_month[c] EXCEPT !.available = @ + carry]
         IN  RollLoop_NoClamp([cm |-> Put(r.cm, t, Put(to_month, c, dest)), overspend |-> ov],
                              f, t, todo \ {c})

\* the loop of cmd_roll over the categories still in todo.  from_month and
\* to_month are cm[f] and cm[t]: the same dict when f = t, so a write to
\* to_month is seen by a later read of from_month.  The order of the loop is
\* the dict's insertion order; each category is read and written in its own
\* iteration only and the arithmetic is exact, so any order gives the result.
RECURSIVE RollLoop(_, _, _, _)
RollLoop(r, f, t, todo) ==
    IF todo = {} THEN r
    ELSE LET c == CHOOSE x \in todo : TRUE
             prev == Get(r.cm[f], c, [available |-> 0])
             av == prev.available
             carry == Max(av, 0)
             ov == IF av < 0 THEN r.overspend + (-av) ELSE r.overspend
             to_month == SetDefault(r.cm[t], c, ZeroEntry)
             dest == [to_month[c] EXCEPT !.available = @ + carry]
         IN  RollLoop([cm |-> Put(r.cm, t, Put(to_month, c, dest)), overspend |-> ov],
                      f, t, todo \ {c})

cmd_roll(s, frm, to) ==
    LET f == parse_month(frm)
        t == parse_month(to)
    IN  IF f = Err \/ t = Err THEN Raised(s)
        ELSE LET cm0 == SetDefault(SetDefault(s.category_month, f, EmptyDict), t, EmptyDict)
                 r == RollLoop([cm |-> cm0, overspend |-> 0], f, t, DOMAIN s.categories)
                 ms == SetDefault(s.month_summary, t, EmptyDict)
                 msum == Put(ms[t], "ready_to_assign",
                             Get(ms[t], "ready_to_assign", 0) - r.overspend)
             IN  [Done([s EXCEPT !.category_month = r.cm, !.month_summary = Put(ms, t, msum)],
                       <<Msg("Rolled forward", r.overspend)>>) EXCEPT !.key = <<f, t>>]

(* ----------------------------- cmd_rep -------------------------------- *)

\* total_bud after the loop of lines 218-221 has run over listing[i..]
RECURSIVE TotalBud(_, _, _)
TotalBud(cm, listing, i) ==
    IF i > Len(listing) THEN 0
    ELSE cm[LStrip(listing[i])].budgeted + TotalBud(cm, listing, i + 1)

\* cmd_rep from line 206 on, m being the month of the report: every
\* registered category gets an entry in month m, the rows are printed in the
\* order of sorted_categories, then ready_to_assign less the budgeted total
RepBody(s, m) ==
    LET cats == s.categories
        cm0 == SetDefault(s.category_month, m, EmptyDict)
        cm == [c \in DOMAIN cm0[m] \cup DOMAIN cats |-> Get(cm0[m], c, ZeroEntry)]
        s1 == [s EXCEPT !.category_month = Put(cm0, m, cm)]
        listing == sorted_categories(s1)
        tbb == Get(s1.month_summary, m, [ready_to_assign |-> 0]).ready_to_assign
    IN  IF \E i \in 1..Len(listing) : LStrip(listing[i]) \notin DOMAIN cm
        THEN Raised(s1)
        ELSE Done(s1, <<Msg("Categories",
                            [i \in 1..Len(listing) |-> <<listing[i], cm[LStrip(listing[i])]>>]),
                        Msg("Remaining TBB", tbb - TotalBud(cm, listing, 1))>>)

\* cmd_rep with m bound to the parsed month, as in the other commands
cmd_rep_Bound(s, mon) ==
    LET m == parse_month(mon)
    IN  IF m = Err THEN Raised(s) ELSE RepBody(s, m)

\* cmd_rep assigns no m and the module has no global m: reading m at line 205
\* raises NameError, before anything is printed or written
cmd_rep(s, mon) ==
    LET m == Err
    IN  IF m = Err THEN Raised(s) ELSE RepBody(s, m)

(* ----------------------------- cmd_show ------------------------------- *)

\* cmd_show prints the accounts, the categories in the order of
\* sorted_categories and the ready_to_assign of every month in the order of
\* the month keys; it writes nothing
cmd_show(s) ==
    LET months == Sorted(DOMAIN s.month_summary)
    IN  Done(s, <<Msg("Accounts", s.accounts),
                  Msg("Categories", sorted_categories(s)),
                  Msg("Month Summaries",
                      [i \in 1..Len(months) |->
                          <<months[i], s.month_summary[months[i]].ready_to_assign>>])>>)

(* ------------------------------ actions ------------------------------- *)

Init ==
    /\ state = load_state
    /\ last = [op |-> "load", args |-> <<>>, status |-> "ok", out |-> <<>>, key |-> None,
               pre |-> load_state, again |-> FALSE, pre2 |-> load_state]
    /\ nops = 0
    /\ carried = EmptyDict

\* the history of carries after cmd_roll has run from month f to month t on
\* state s: for every registered category c the carry of lines 190-192,
\* max(available of c in month f, 0), is added under <<t, c>>
AddCarry(h, s, f, t) ==
    LET dest == {<<t, c>> : c \in DOMAIN s.categories}
        from_month == Get(s.category_month, f, EmptyDict)
    IN  [k \in DOMAIN h \cup dest |->
            Get(h, k, 0) + IF k \in dest
                           THEN Max(Get(from_month, k[2], ZeroEntry).available, 0)
                           ELSE 0]

\* main(): one command run on the loaded state.  last records the command, its
\* arguments, what it printed and the state it was given; when the command
\* repeats the one before it (same command, same arguments, both run to their
\* end), again is TRUE and pre2 is the state the first of the two was given.
Step(op, args, r) ==
    LET again == /\ r.status = "ok" /\ last.status = "ok"
                 /\ last.op = op /\ last.args = args
    IN  /\ state' = r.state
        /\ last' = [op |-> op, args |-> args, status |-> r.status, out |-> r.out,
                    key |-> r.key, pre |-> state, again |-> again,
                    pre2 |-> IF again THEN last.pre ELSE load_state]
        /\ nops' = nops + 1
        /\ carried' = IF op = "roll" /\ r.status = "ok"
                      THEN AddCarry(carried, state, r.key[1], r.key[2])
                      ELSE carried

\* one command of a behaviour of at most MaxOps commands
Run(op, args, r) == nops < MaxOps /\ Step(op, args, r)

Acc == \E name \in AccNames, typ \in AccTypes :
          Run("acc", <<name, typ>>, cmd_acc(state, name, typ))

Cat == \E spec \in CatSpecs : Run("cat", <<spec>>, cmd_cat(state, spec))

Tbb == \E mon \in MonthTexts, amt \in Amounts : \E rounded \in Round2(amt) :
          Run("tbb", <<mon, amt>>, cmd_tbb(state, mon, amt, rounded))

Bud == \E mon \in MonthTexts, cat \in CatNames, amt \in Amounts :
          Run("bud", <<mon, cat, amt>>, cmd_bud(state, mon, cat, amt))

Spend == \E mon \in MonthTexts, acc \in AccNames, cat \in CatNames, amt \in SpendAmounts :
            Run("spend", <<mon, acc, cat, amt>>, cmd_spend(state, mon, acc, cat, amt))

Xfer == \E mon \in MonthTexts, src \in AccNames, dst \in AccNames, amt \in XferAmounts :
           Run("xfer", <<mon, src, dst, amt>>, cmd_xfer(state, mon, src, dst, amt))

Roll == \E frm \in MonthTexts, to \in MonthTexts :
           Run("roll", <<frm, to>>, cmd_roll(state, frm, to))

Next == Acc \/ Cat \/ Tbb \/ Bud \/ Spend \/ Xfer \/ Roll

Spec == Init /\ [][Next]_vars

\* runs made of cmd_cat, cmd_tbb and cmd_bud only: no spend, no rollover
NextAssign == Cat \/ Tbb \/ Bud

SpecAssign == Init /\ [][NextAssign]_vars

\* the specs given to cmd_cat in the runs that list the categories
pB == <<"B">>
pAC == <<"A", ":", "C">>
pAspB == <<"A", " ", "B">>
pBA == <<"B", ":", "A">>
TreeSpecs == {pB, pABC, pAC, pAspB, pAeB, pBA}

CatTree == \E spec \in TreeSpecs : Run("cat", <<spec>>, cmd_cat(state, spec))

Show == Run("show", <<>>, cmd_show(state))

\* runs made of cmd_cat and cmd_show only
NextTree == CatTree \/ Show

SpecTree == Init /\ [][NextTree]_vars

Rep == \E mon \in MonthTexts : Run("rep", <<mon>>, cmd_rep(state, mon))

\* runs made of cmd_cat, cmd_tbb, cmd_bud and the two reports
NextReport == Cat \/ Tbb \/ Bud \/ Rep \/ Show

SpecReport == Init /\ [][NextReport]_vars

\* the end-to-end scenario: one account, one category, March 2024 written in
\* two ways, 500.00 made ready to assign, 200.00 budgeted, 50.00 spent
Checking == <<"C", "h", "e", "c", "k", "i", "n", "g">>
Food == <<"F", "o", "o", "d">>
Mar == <<"2024", "-", "03">>
MarTexts == {Mar, <<"Mar", " ", "2024">>}

RunE2E(op, args, r) == nops < MaxE2E /\ Step(op, args, r)

AccE2E == \E typ \in {"bank"} : RunE2E("acc", <<Checking, typ>>, cmd_acc(state, Checking, typ))

CatE2E == \E spec \in {Food} : RunE2E("cat", <<spec>>, cmd_cat(state, spec))

TbbE2E == \E mon \in MarTexts, amt \in {500000} : \E rounded \in Round2(amt) :
             RunE2E("tbb", <<mon, amt>>, cmd_tbb(state, mon, amt, rounded))

BudE2E == \E mon \in MarTexts, amt \in {200000} :
             RunE2E("bud", <<mon, Food, amt>>, cmd_bud(state, mon, Food, amt))

SpendE2E == \E mon \in MarTexts, amt \in {50000} :
               RunE2E("spend", <<mon, Checking, Food, amt>>,
                      cmd_spend(state, mon, Checking, Food, amt))

RepE2E == \E mon \in MarTexts : RunE2E("rep", <<mon>>, cmd_rep(state, mon))

NextE2E == AccE2E \/ CatE2E \/ TbbE2E \/ BudE2E \/ SpendE2E \/ RepE2E

SpecE2E == Init /\ [][NextE2E]_vars

(* ------------------------ reading a ledger state ---------------------- *)

HasEntry(s, m, c) == m \in DOMAIN s.category_month /\ c \in DOMAIN s.category_month[m]

\* the entry of category c in month m, all zero when there is none
EntryOf(s, m, c) == IF HasEntry(s, m, c) THEN s.category_month[m][c] ELSE ZeroEntry

HasSummary(s, m) == m \in DOMAIN s.month_summary

\* ready_to_assign of month m, 0 when the month has no summary
Rta(s, m) == IF HasSummary(s, m) THEN s.month_summary[m].ready_to_assign ELSE 0

RECURSIVE SumOver(_, _)
\* the sum of f[x] over the x in S
SumOver(S, f) == IF S = {} THEN 0
                 ELSE LET x == CHOOSE y \in S : TRUE IN f[x] + SumOver(S \ {x}, f)

\* the last command ran to its end
Ran(op) == last.op = op /\ last.status = "ok"

Months == {Jan, Feb}

(* ------------------------------- C1 ----------------------------------- *)

\* C1: after roll_forward(from, to), for every registered category c with
\* source-month available a (0 without an entry), the destination available of
\* c has grown by exactly max(a, 0), and the destination ready_to_assign
\* (0 when the month had no summary) has shrunk by exactly the sum over the
\* registered categories of max(-a, 0).
C1_RollForward ==
    Ran("roll") =>
        LET f == last.key[1]
            t == last.key[2]
            p == last.pre
            cats == DOMAIN p.categories
            over == [c \in cats |-> Max(-EntryOf(p, f, c).available, 0)]
        IN  /\ f = parse_month(last.args[1]) /\ t = parse_month(last.args[2])
            /\ \A c \in cats :
                  /\ HasEntry(state, t, c)
                  /\ EntryOf(state, t, c).available =
                        EntryOf(p, t, c).available + Max(EntryOf(p, f, c).available, 0)
            /\ HasSummary(state, t)
            /\ Rta(state, t) = Rta(p, t) - SumOver(cats, over)

\* Groceries = -15 and Rent = 40 in January, no summary for February: the roll
\* gives Rent +40, Groceries +0 and ready_to_assign -15 in February.
C1_Witness ==
    /\ Ran("roll") /\ last.key = <<Jan, Feb>>
    /\ EntryOf(last.pre, Jan, pA).available = -15000
    /\ EntryOf(last.pre, Jan, pAB).available = 40000
    /\ ~HasSummary(last.pre, Feb)
    /\ EntryOf(state, Feb, pAB).available = 40000
    /\ EntryOf(state, Feb, pA).available = 0
    /\ Rta(state, Feb) = -15000

(* ------------------------------- C2 ----------------------------------- *)

Unparseable(mon) == parse_month(mon) = Err

\* C2: every rejected command leaves the whole ledger as it was: cmd_bud with
\* an unregistered category, cmd_spend with an unregistered account or
\* category, cmd_xfer with an unregistered account, cmd_acc with a duplicate
\* name or an invalid type, and any command given an unparseable month.
C2_RejectedUnchanged ==
    LET p == last.pre
        a == last.args
        Kept == state = p /\ last.status # "ok"
    IN  /\ last.op = "acc" /\ (a[1] \in DOMAIN p.accounts \/ a[2] \notin {"bank", "credit"})
              => Kept
        /\ last.op = "tbb" /\ Unparseable(a[1]) => Kept
        /\ last.op = "bud" /\ (Unparseable(a[1]) \/ a[2] \notin DOMAIN p.categories) => Kept
        /\ last.op = "spend" /\ (\/ Unparseable(a[1])
                                 \/ a[2] \notin DOMAIN p.accounts
                                 \/ a[3] \notin DOMAIN p.categories) => Kept
        /\ last.op = "xfer" /\ (\/ Unparseable(a[1])
                                \/ a[2] \notin DOMAIN p.accounts
                                \/ a[3] \notin DOMAIN p.accounts) => Kept
        /\ last.op = "roll" /\ (Unparseable(a[1]) \/ Unparseable(a[2])) => Kept
        /\ last.status # "ok" => state = p

\* a spend with a registered account and an unregistered category, on a ledger
\* that has entries to lose
C2_Witness ==
    /\ last.op = "spend" /\ last.status = "rejected"
    /\ last.args[2] \in DOMAIN last.pre.accounts
    /\ last.args[3] \notin DOMAIN last.pre.categories
    /\ last.pre.category_month # EmptyDict
    /\ state = last.pre

(* ------------------------------- C3 ----------------------------------- *)

RECURSIVE SumBudgeted(_, _, _)
\* the sum of the amounts the log records as budgeted into category c in month m
SumBudgeted(log, m, c) ==
    IF log = <<>> THEN 0
    ELSE (IF /\ Head(log).month = m /\ Head(log).category = c /\ Head(log).account = None
          THEN Head(log).amount ELSE 0) + SumBudgeted(Tail(log), m, c)

\* C3: in runs without spend and rollover, after any sequence of cmd_bud calls
\* with amounts a1..an into a registered category and month, the entry's
\* available equals its budgeted and both equal a1 + ... + an; and a cmd_bud
\* call with a registered category and a parseable month is never rejected,
\* whatever the month's ready_to_assign.
C3_AssignSums ==
    /\ \A m \in Months, c \in CatNames :
          /\ EntryOf(state, m, c).budgeted = SumBudgeted(state.transactions, m, c)
          /\ EntryOf(state, m, c).available = EntryOf(state, m, c).budgeted
    /\ (/\ last.op = "bud"
        /\ ~Unparseable(last.args[1])
        /\ last.args[2] \in DOMAIN last.pre.categories) => last.status = "ok"

\* 40.00 then -15.00 budgeted into A for January, whose ready_to_assign is 1.00
C3_Witness ==
    /\ Ran("bud") /\ last.args[3] < 0
    /\ Len(state.transactions) = 2
    /\ EntryOf(state, Jan, pA).budgeted = 25000
    /\ EntryOf(state, Jan, pA).available = 25000
    /\ HasSummary(state, Jan) /\ Rta(state, Jan) < 25000

(* ------------------------------- C4 ----------------------------------- *)

\* C4: cmd_spend(month, acc, cat, amt) with a registered account and category
\* runs to its end, lowers the entry's available and activity by exactly amt,
\* keeps its budgeted, and appends exactly the transaction
\* {month, account: acc, category: cat, amount: -amt}.
C4_RecordSpend ==
    (/\ last.op = "spend"
     /\ ~Unparseable(last.args[1])
     /\ last.args[2] \in DOMAIN last.pre.accounts
     /\ last.args[3] \in DOMAIN last.pre.categories) =>
        LET m == parse_month(last.args[1])
            acc == last.args[2]
            cat == last.args[3]
            amt == last.args[4]
            e0 == EntryOf(last.pre, m, cat)
            e1 == EntryOf(state, m, cat)
        IN  /\ last.status = "ok"
            /\ HasEntry(state, m, cat)
            /\ e1.available = e0.available - amt
            /\ e1.activity = e0.activity - amt
            /\ e1.budgeted = e0.budgeted
            /\ state.transactions =
                  Append(last.pre.transactions,
                         [month |-> m, account |-> acc, category |-> cat, amount |-> -amt])

\* a spend of 15.00 from a category budgeted 1.004: available goes negative
C4_Witness ==
    /\ Ran("spend")
    /\ EntryOf(last.pre, Jan, pA).available = 1004
    /\ EntryOf(state, Jan, pA).available = -13996
    /\ EntryOf(state, Jan, pA).activity = -15000
    /\ EntryOf(state, Jan, pA).budgeted = 1004
    /\ Len(state.transactions) = 2

(* ------------------------------- C5 ----------------------------------- *)

\* C5: cmd_xfer(month, src, dst, amt) with both accounts registered runs to its
\* end, leaves category_month and month_summary as they were (creating
\* nothing), and appends exactly two transactions, -amt against src and +amt
\* against dst, both without category, whose amounts sum to zero.
C5_RecordTransfer ==
    (/\ last.op = "xfer"
     /\ ~Unparseable(last.args[1])
     /\ last.args[2] \in DOMAIN last.pre.accounts
     /\ last.args[3] \in DOMAIN last.pre.accounts) =>
        LET m == parse_month(last.args[1])
            n == Len(last.pre.transactions)
            log == state.transactions
        IN  /\ last.status = "ok"
            /\ state.category_month = last.pre.category_month
            /\ state.month_summary = last.pre.month_summary
            /\ Len(log) = n + 2
            /\ SubSeq(log, 1, n) = last.pre.transactions
            /\ log[n + 1] = [month |-> m, account |-> last.args[2], category |-> None,
                             amount |-> -last.args[4]]
            /\ log[n + 2] = [month |-> m, account |-> last.args[3], category |-> None,
                             amount |-> last.args[4]]
            /\ log[n + 1].amount + log[n + 2].amount = 0

\* a transfer between two different accounts in a month that has a summary
C5_Witness ==
    /\ Ran("xfer") /\ last.args[2] # last.args[3]
    /\ state.month_summary # EmptyDict
    /\ Len(state.transactions) = 2

(* ------------------------------- C6 ----------------------------------- *)

\* what cmd_tbb leaves alone: every other month's summary, every entry
TbbFrame(m) ==
    /\ DOMAIN state.month_summary = DOMAIN last.pre.month_summary \cup {m}
    /\ \A m2 \in DOMAIN last.pre.month_summary :
          m2 # m => state.month_summary[m2] = last.pre.month_summary[m2]
    /\ state.category_month = last.pre.category_month

\* C6 as claimed: after cmd_tbb(month, amount) the month's ready_to_assign
\* equals the given amount whatever it was before, and no other month's
\* summary and no category entry has changed.
C6_Original ==
    Ran("tbb") =>
        LET m == parse_month(last.args[1])
        IN  /\ HasSummary(state, m)
            /\ Rta(state, m) = last.args[2]
            /\ TbbFrame(m)

Abs(x) == IF x < 0 THEN -x ELSE x

\* C6 (amended): after cmd_tbb(month, amount) the month's ready_to_assign
\* equals the given amount rounded to 2 fractional digits (the whole number of
\* hundredths nearest to it) whatever it was before, and no other month's
\* summary and no category entry has changed.
C6_SetReadyToAssign ==
    Ran("tbb") =>
        LET m == parse_month(last.args[1])
        IN  /\ HasSummary(state, m)
            /\ Rta(state, m) % 10 = 0
            /\ Abs(Rta(state, m) - last.args[2]) <= 5
            /\ TbbFrame(m)

\* February's ready_to_assign is -15.00 after a rollover deducted A's
\* overspend; cmd_tbb of 1.004 leaves 1.00
C6_Witness ==
    /\ Ran("tbb") /\ last.args[2] = 1004
    /\ EntryOf(last.pre, Jan, pA).available = -15000
    /\ HasEntry(last.pre, Feb, pA) /\ EntryOf(last.pre, Feb, pA) = ZeroEntry
    /\ Rta(last.pre, Feb) = -15000
    /\ Rta(state, Feb) = 1000

(* ------------------------------- C7 ----------------------------------- *)

\* after two cmd_roll(from, to) in a row, against the state p0 before the
\* first: every destination available has grown by twice the carry of p0 and
\* the destination ready_to_assign has shrunk by twice the overspend of p0
RolledTwice(p0, f, t) ==
    LET cats == DOMAIN p0.categories
        over == [c \in cats |-> Max(-EntryOf(p0, f, c).available, 0)]
    IN  /\ \A c \in cats :
              EntryOf(state, t, c).available =
                  EntryOf(p0, t, c).available + 2 * Max(EntryOf(p0, f, c).available, 0)
        /\ Rta(state, t) = Rta(p0, t) - 2 * SumOver(cats, over)

\* C7 as claimed: calling cmd_roll twice for the same month pair, with nothing
\* in between, applies the carry and the overspend deduction of a single call
\* twice.
C7_Original ==
    (Ran("roll") /\ last.again) => RolledTwice(last.pre2, last.key[1], last.key[2])

\* C7 (amended): calling cmd_roll twice for the same pair of different months,
\* with nothing in between, applies the carry and the overspend deduction of a
\* single call twice.
C7_RollTwice ==
    (Ran("roll") /\ last.again /\ last.key[1] # last.key[2]) =>
        RolledTwice(last.pre2, last.key[1], last.key[2])

\* A has 40.00 in January; two rollovers to February leave 80.00 there
C7_Witness ==
    /\ Ran("roll") /\ last.again /\ last.key = <<Jan, Feb>>
    /\ EntryOf(last.pre2, Jan, pA).available = 40000
    /\ ~HasEntry(last.pre2, Feb, pA)
    /\ EntryOf(last.pre, Feb, pA).available = 40000
    /\ EntryOf(state, Feb, pA).available = 80000

(* ------------------------------- C8 ----------------------------------- *)

\* a spec without its blanks: the colon-delimited path it names
Unblank(spec) == SelectSeq(spec, LAMBDA ch : ch # " ")

\* the prefixes of a path that end where the path ends or right before a colon
PathPrefixes(path) ==
    {SubSeq(path, 1, k) : k \in {j \in 0..Len(path) : j = Len(path) \/ path[j + 1] = ":"}}

\* the positions of the colons of a path
Colons(path) == {j \in 1..Len(path) : path[j] = ":"}

\* a path with its last segment removed; None for a path of one segment
ParentPath(path) ==
    IF Colons(path) = {} THEN None
    ELSE SubSeq(path, 1, (CHOOSE j \in Colons(path) : \A k \in Colons(path) : k <= j) - 1)

\* C8: cmd_cat on a colon-delimited path creates one category for each prefix
\* of the path that does not exist yet, with parent the previous prefix (None
\* for the first segment), and keeps the existing categories; on an empty set
\* "A:B:C" creates exactly A, A:B, A:B:C with parents None, A, A:B.  A call
\* whose prefixes all exist changes nothing, and 'already exists' is printed
\* for the full leaf path only, exactly when it existed.
C8_AddCategory ==
    last.op = "cat" =>
        LET path == Unblank(last.args[1])
            old == last.pre.categories
            new == state.categories
            exists == {i \in DOMAIN last.out : last.out[i].msg = "already exists"}
        IN  /\ last.status = "ok"
            /\ DOMAIN new = DOMAIN old \cup PathPrefixes(path)
            /\ \A c \in DOMAIN old : new[c] = old[c]
            /\ \A c \in PathPrefixes(path) \ DOMAIN old : new[c] = [parent |-> ParentPath(c)]
            /\ \A i \in exists : last.out[i].arg = path
            /\ (exists # {}) <=> (path \in DOMAIN old)
            /\ (old = EmptyDict /\ last.args[1] = pABC) =>
                  new = [c \in {pA, pAB, pABC} |->
                            [parent |-> IF c = pA THEN None ELSE IF c = pAB THEN pA ELSE pAB]]
            /\ PathPrefixes(path) \subseteq DOMAIN old =>
                  /\ new = old
                  /\ last.out = <<Msg("already exists", path)>>
            /\ state = [last.pre EXCEPT !.categories = new]

\* "A:B:C" added to an empty category set, then added again
C8_Witness ==
    /\ Ran("cat") /\ last.again /\ last.args[1] = pABC
    /\ last.pre2.categories = EmptyDict
    /\ DOMAIN last.pre.categories = {pA, pAB, pABC}
    /\ state.categories = last.pre.categories
    /\ last.out = <<Msg("already exists", pABC)>>

(* ------------------------------- C9 ----------------------------------- *)

\* C9: in every reachable state, each category whose parent is not None has a
\* parent that is a registered category and that is the category's path with
\* its last segment removed.
C9_ParentRegistered ==
    \A c \in DOMAIN state.categories :
        state.categories[c].parent # None =>
            /\ state.categories[c].parent \in DOMAIN state.categories
            /\ state.categories[c].parent = ParentPath(c)

\* "A:B:C" added to an empty set: its parent A:B and grandparent A were
\* created on the way
C9_Witness ==
    /\ Ran("cat") /\ last.args[1] = pABC /\ last.pre.categories = EmptyDict
    /\ state.categories[pABC].parent = pAB
    /\ state.categories[pAB].parent = pA
    /\ state.categories[pA].parent = None

(* ------------------------------- C10 ---------------------------------- *)

\* C10 as claimed: every command other than cmd_tbb that changes the ledger
\* appends at least one transaction.
C10_Original ==
    (last.op \in {"acc", "cat", "bud", "spend", "xfer", "roll"} /\ state # last.pre) =>
        Len(state.transactions) > Len(last.pre.transactions)

\* C10 (amended): cmd_bud, cmd_spend and cmd_xfer append at least one
\* transaction to the log whenever they run to their end; cmd_acc, cmd_cat and
\* cmd_roll, like cmd_tbb, append none.
C10_AuditTrail ==
    /\ (last.op \in {"bud", "spend", "xfer"} /\ last.status = "ok") =>
          /\ Len(state.transactions) > Len(last.pre.transactions)
          /\ SubSeq(state.transactions, 1, Len(last.pre.transactions)) = last.pre.transactions
    /\ last.op \in {"acc", "cat", "roll", "tbb"} =>
          state.transactions = last.pre.transactions

\* a rollover that carried 40.00 into February and left the log as it was
C10_Witness ==
    /\ Ran("roll") /\ last.key = <<Jan, Feb>>
    /\ EntryOf(state, Feb, pA).available = 40000
    /\ ~HasEntry(last.pre, Feb, pA)
    /\ Len(last.pre.transactions) = 1
    /\ state.transactions = last.pre.transactions

(* ------------------------------- C11 ---------------------------------- *)

\* log a is the beginning of log b
IsPrefix(a, b) == Len(a) <= Len(b) /\ SubSeq(b, 1, Len(a)) = a

\* C11: the transaction log is append-only: the log a command was given is a
\* prefix of the log it leaves, and so is the log two commands back, so no
\* recorded transaction is ever changed, reordered or removed.
C11_AppendOnly ==
    /\ IsPrefix(last.pre.transactions, state.transactions)
    /\ last.again => IsPrefix(last.pre2.transactions, last.pre.transactions)

\* a spend appended to a log that already held two transactions
C11_Witness ==
    /\ Ran("spend")
    /\ Len(last.pre.transactions) = 2
    /\ Len(state.transactions) = 3
    /\ state.transactions[3].amount = -15000

(* ------------------------------- C12 ---------------------------------- *)

\* C12: cmd_roll changes the budgeted and activity of no entry (a destination
\* entry that exists keeps them, a new one has both 0), removes no entry, and
\* never lowers the available of any entry.
C12_RollOnlyAdds ==
    Ran("roll") =>
        /\ \A m \in DOMAIN last.pre.category_month :
              \A c \in DOMAIN last.pre.category_month[m] : HasEntry(state, m, c)
        /\ \A m \in DOMAIN state.category_month :
              \A c \in DOMAIN state.category_month[m] :
                  /\ EntryOf(state, m, c).budgeted = EntryOf(last.pre, m, c).budgeted
                  /\ EntryOf(state, m, c).activity = EntryOf(last.pre, m, c).activity
                  /\ EntryOf(state, m, c).available >= EntryOf(last.pre, m, c).available

\* A has 40.00 in January and 1.004 budgeted in February; the rollover leaves
\* February's budgeted at 1.004 and its available at 41.004
C12_Witness ==
    /\ Ran("roll") /\ last.key = <<Jan, Feb>>
    /\ EntryOf(last.pre, Jan, pA).available = 40000
    /\ EntryOf(last.pre, Feb, pA) = [budgeted |-> 1004, activity |-> 0, available |-> 1004]
    /\ EntryOf(state, Feb, pA) = [budgeted |-> 1004, activity |-> 0, available |-> 41004]
    /\ HasEntry(state, Feb, pAB) /\ ~HasEntry(last.pre, Feb, pAB)

(* ------------------------------- C15 ---------------------------------- *)

\* a whole number of hundredths
Hundredths(x) == x % 10 = 0

\* C15: every stored money amount is rounded to 2 fractional digits: every
\* budgeted, activity, available, ready_to_assign and transaction amount of
\* the ledger is a whole number of hundredths.
C15_Original ==
    /\ \A m \in DOMAIN state.category_month :
          \A c \in DOMAIN state.category_month[m] :
              /\ Hundredths(state.category_month[m][c].budgeted)
              /\ Hundredths(state.category_month[m][c].activity)
              /\ Hundredths(state.category_month[m][c].available)
    /\ \A m \in DOMAIN state.month_summary :
          Hundredths(state.month_summary[m].ready_to_assign)
    /\ \A i \in DOMAIN state.transactions : Hundredths(state.transactions[i].amount)

(* ------------------------------- C16 ---------------------------------- *)

\* C16: cmd_acc(name, typ) is rejected, leaving the ledger as it was, when typ
\* is not bank or credit and when name is registered; otherwise it inserts the
\* account with that type and changes nothing else.  No command removes a
\* registered account or changes its type.
C16_AddAccount ==
    /\ last.op = "acc" =>
          LET name == last.args[1]
              typ == last.args[2]
              p == last.pre
          IN  IF typ \notin {"bank", "credit"} \/ name \in DOMAIN p.accounts
              THEN last.status = "rejected" /\ state = p
              ELSE /\ last.status = "ok"
                   /\ DOMAIN state.accounts = DOMAIN p.accounts \cup {name}
                   /\ state.accounts[name] = [type |-> typ]
                   /\ state = [p EXCEPT !.accounts = state.accounts]
    /\ \A n \in DOMAIN last.pre.accounts :
          n \in DOMAIN state.accounts /\ state.accounts[n] = last.pre.accounts[n]

\* a registered account added again with the other valid type: rejected, and
\* the account keeps its type
C16_Witness ==
    /\ last.op = "acc" /\ last.status = "rejected"
    /\ last.args[2] \in {"bank", "credit"}
    /\ last.args[1] \in DOMAIN last.pre.accounts
    /\ last.pre.accounts[last.args[1]].type # last.args[2]
    /\ state.accounts[last.args[1]] = last.pre.accounts[last.args[1]]

(* ------------------------------- C19 ---------------------------------- *)

\* C19: cmd_roll conserves money: what it adds to the destination available
\* over the registered categories, minus what it deducts from the destination
\* ready_to_assign, is the sum of the source-month available of the registered
\* categories before the call; also when from and to are the same month.
C19_RollConserves ==
    Ran("roll") =>
        LET f == last.key[1]
            t == last.key[2]
            p == last.pre
            cats == DOMAIN p.categories
            added == [c \in cats |->
                         EntryOf(state, t, c).available - EntryOf(p, t, c).available]
            source == [c \in cats |-> EntryOf(p, f, c).available]
            deducted == Rta(p, t) - Rta(state, t)
        IN  SumOver(cats, added) - deducted = SumOver(cats, source)

\* January rolled into January with A at -15.00 and A:B at 40.00: A:B doubles
\* and January's ready_to_assign loses 15.00
C19_Witness ==
    /\ Ran("roll") /\ last.key = <<Jan, Jan>>
    /\ EntryOf(last.pre, Jan, pA).available = -15000
    /\ EntryOf(last.pre, Jan, pAB).available = 40000
    /\ EntryOf(state, Jan, pA).available = -15000
    /\ EntryOf(state, Jan, pAB).available = 80000
    /\ Rta(state, Jan) = Rta(last.pre, Jan) - 15000

(* ------------------------------- C20 ---------------------------------- *)

\* the categories a ledger knows: the registered ones and those with an entry
KnownCats(s) ==
    DOMAIN s.categories \cup UNION {DOMAIN s.category_month[m] : m \in DOMAIN s.category_month}

\* C20: cmd_roll(from, to) with from and to different months leaves every
\* entry of every month but the destination as it was and creates none there,
\* leaves every summary but the destination's as it was and creates none, and
\* leaves accounts, categories and the log alone.
C20_RollFrame ==
    (Ran("roll") /\ last.key[1] # last.key[2]) =>
        LET t == last.key[2]
            p == last.pre
        IN  /\ \A m \in Months \ {t} :
                  /\ \A c \in KnownCats(p) \cup KnownCats(state) :
                        /\ HasEntry(state, m, c) <=> HasEntry(p, m, c)
                        /\ EntryOf(state, m, c) = EntryOf(p, m, c)
                  /\ HasSummary(state, m) <=> HasSummary(p, m)
                  /\ Rta(state, m) = Rta(p, m)
            /\ state.accounts = p.accounts
            /\ state.categories = p.categories
            /\ state.transactions = p.transactions

\* January has a summary and an entry for A but none for A:B; after the
\* rollover to February it still has none for A:B
C20_Witness ==
    /\ Ran("roll") /\ last.key = <<Jan, Feb>>
    /\ pAB \in DOMAIN state.categories
    /\ HasEntry(last.pre, Jan, pA) /\ ~HasEntry(last.pre, Jan, pAB)
    /\ HasSummary(last.pre, Jan)
    /\ ~HasEntry(state, Jan, pAB)
    /\ HasEntry(state, Feb, pAB) /\ HasEntry(state, Feb, pA)
    /\ state.month_summary[Jan] = last.pre.month_summary[Jan]

(* ------------------------------- C17 ---------------------------------- *)

\* the number of ancestors of category c
RECURSIVE Depth(_, _)
Depth(cats, c) == IF cats[c].parent = None THEN 0 ELSE 1 + Depth(cats, cats[c].parent)

\* a is the parent of c, or the parent of its parent, and so on
RECURSIVE IsAncestor(_, _, _)
IsAncestor(cats, a, c) ==
    /\ cats[c].parent # None
    /\ cats[c].parent = a \/ IsAncestor(cats, a, cats[c].parent)

Descendants(cats, c) == {d \in DOMAIN cats : IsAncestor(cats, c, d)}

\* two spaces for each level
Indent(n) == [i \in 1..(2 * n) |-> " "]

\* C17: the listing cmd_show prints holds every registered category exactly
\* once, as its name indented by two spaces for each of its ancestors; every
\* category is immediately followed by its descendants; and two categories
\* with the same parent (two roots included) come in lexicographic order.
C17_OrderedListing ==
    last.op = "show" =>
        LET cats == last.pre.categories
            L == last.out[2].arg
            Line(c) == Indent(Depth(cats, c)) \o c
            Pos(c) == CHOOSE i \in 1..Len(L) : L[i] = Line(c)
        IN  /\ Len(L) = Cardinality(DOMAIN cats)
            /\ \A c \in DOMAIN cats : Cardinality({i \in 1..Len(L) : L[i] = Line(c)}) = 1
            /\ \A c \in DOMAIN cats :
                  LET n == Cardinality(Descendants(cats, c))
                  IN  /\ Pos(c) + n <= Len(L)
                      /\ {L[i] : i \in (Pos(c) + 1)..(Pos(c) + n)}
                             = {Line(d) : d \in Descendants(cats, c)}
            /\ \A c \in DOMAIN cats : \A d \in DOMAIN cats :
                  (cats[c].parent = cats[d].parent /\ StrLess(c, d)) => Pos(c) < Pos(d)
            /\ \A c \in DOMAIN cats :
                  cats[c].parent # None => Pos(cats[c].parent) < Pos(c)

\* B, then "A B", then A:B:C registered: the listing has A with its subtree
\* first, then "A B", which sorts before A:B as a string, then B
C17_Witness ==
    /\ last.op = "show"
    /\ last.out[2].arg = << <<"A">>, <<" ", " ">> \o pAB, <<" ", " ", " ", " ">> \o pABC,
                            pAspB, pB >>

(* ------------------------------- C13 ---------------------------------- *)

AfterScenario ==
    LET s1 == cmd_acc(load_state, Checking, "bank").state
        s2 == cmd_cat(s1, Food).state
        s3 == cmd_tbb(s2, Mar, 500000, 500000).state
        s4 == cmd_bud(s3, Mar, Food, 200000).state
    IN  cmd_spend(s4, Mar, Checking, Food, 50000).state

\* C14: after the five commands of the scenario the entry of Food for 2024-03
\* has budgeted 200, activity -50 and available 150, and the report for
\* 2024-03 gives a Remaining TBB of 500 - 200 = 300.
C14_Original ==
    (last.op = "rep" /\ last.pre = AfterScenario /\ parse_month(last.args[1]) = Mar) =>
        /\ EntryOf(state, Mar, Food) =
              [budgeted |-> 200000, activity |-> -50000, available |-> 150000]
        /\ last.status = "ok"
        /\ last.out[Len(last.out)] = Msg("Remaining TBB", 300000)

(* ------------------------------- C18 ---------------------------------- *)

\* what an entry has available beyond its budgeted plus its activity
Surplus(e) == e.available - (e.budgeted + e.activity)

\* C18: every entry has available >= budgeted + activity, and the difference
\* is the total of the carries that rollovers added to that entry; an entry
\* of a month that was never the destination of a rollover has
\* available = budgeted + activity.
C18_AvailableBalance ==
    \A m \in DOMAIN state.category_month : \A c \in DOMAIN state.category_month[m] :
        LET e == state.category_month[m][c]
        IN  /\ Surplus(e) >= 0
            /\ Surplus(e) = Get(carried, <<m, c>>, 0)
            /\ (\A k \in DOMAIN carried : k[1] # m) => e.available = e.budgeted + e.activity

\* 40.00 budgeted to A in January and rolled into February twice: February's
\* entry for A has 80.00 available, nothing budgeted and no activity, and
\* January's entry has no surplus
C18_Witness ==
    /\ Ran("roll") /\ last.key = <<Jan, Feb>> /\ last.again
    /\ EntryOf(state, Jan, pA) = [budgeted |-> 40000, activity |-> 0, available |-> 40000]
    /\ EntryOf(state, Feb, pA) = [budgeted |-> 0, activity |-> 0, available |-> 80000]
    /\ carried[<<Feb, pA>>] = 80000
    /\ \A k \in DOMAIN carried : k[1] # Jan

====
